---- MODULE Spec2Model ----
(***************************************************************************)
(* Photogrammetry-ODM: the remote-task orchestration subsystem.            *)
(*                                                                         *)
(* The module holds one state machine per component; each specification    *)
(* runs one component and keeps the variables of the others at their idle  *)
(* values (Idle, Frame).                                                   *)
(*                                                                         *)
(*   Spec        odm_task.py:wait_for_completion, the Task Monitor.  One   *)
(*               Poll* step is one execution of the try block of the loop  *)
(*               together with the handler that follows it; Sleep is the   *)
(*               time.sleep(poll_seconds) that ends a non-final iteration. *)
(*   SpecSelect  odm_client.py:pick_best_odm_host, the Node Selector.      *)
(*   SpecProbe   odm_client.py:_node_load, the Load Prober.                *)
(*   SpecHosts   odm_client.py:get_odm_hosts, the Host Registry.           *)
(*   SpecMerge   run.py:_merge_odm_options.                                *)
(*   SpecSubmit  odm_task.py:submit_task, the Task Submitter.              *)
(*   SpecRetrieve odm_task.py:download_assets, the Asset Retriever.        *)
(*   SpecFrames  frames.py:extract_frames and _cap_frames.                 *)
(*   SpecCurate  run.py:_copy_summary_outputs, the curated copy.           *)
(*   SpecRun     run.py:run_pipeline, the Orchestrator.  One step is the   *)
(*               call of one stage, up to its return or its exception.     *)
(*                                                                         *)
(* Python's None is the empty sequence <<>> and a present value x is <<x>>.*)
(***************************************************************************)
EXTENDS Integers, Sequences, FiniteSets, TLC

\* wait_for_completion
VARIABLES
    task,                    \* the handle passed in (attributes uuid, task_id, string form)
    poll_seconds,            \* parameter
    max_connection_errors,   \* parameter (default 30)
    uuid,                    \* local, line 196
    last_progress,           \* local, line 193
    consecutive_conn_errors, \* local, line 194
    info,                    \* local, line 200: payload of the last successful query
    pbar_n,                  \* tqdm bar: current value
    pbar_closed,             \* tqdm bar: close() was called
    refreshes,               \* observer: the value shown at every pbar.refresh()
    pc,                      \* "query" | "sleep" | "returned" | "raised"
    error,                   \* the RuntimeError raised, NoError before
    hist,                    \* history: the outcome kind of every task.info() call
    progress_seq,            \* history: int progress of every successful query
    only_running,            \* history: every query so far succeeded with RUNNING
    slept                    \* history: the argument of every time.sleep()

monvars == <<task, poll_seconds, max_connection_errors, uuid, last_progress,
             consecutive_conn_errors, info, pbar_n, pbar_closed, refreshes, pc,
             error, hist, progress_seq, only_running, slept>>

\* pick_best_odm_host
VARIABLES
    hosts,       \* parameter: the list of addresses
    sel_pc,      \* "check" | "loop" | "returned" | "raised"
    sel_i,       \* position in hosts of the address the loop handles next
    best,        \* local, line 254: None or <<(running, queued, total, h)>>
    sel_result,  \* the address returned, None before
    sel_error,   \* the exception that left the function, "" before
    probed       \* history: per address handled, what became of its probe

selvars == <<hosts, sel_pc, sel_i, best, sel_result, sel_error, probed>>

\* _node_load
VARIABLES
    pr_pc,       \* "list" | "loop" | "returned" | "raised"
    uuids,       \* local, line 204
    pr_i,        \* position in uuids of the task the loop handles next
    running,     \* local, line 206
    queued,      \* local, line 206
    pr_result,   \* the tuple returned, None before
    pr_items,    \* history: the items of the /task/list response
    pr_tasks     \* history: per task handled, what became of its info query

probevars == <<pr_pc, uuids, pr_i, running, queued, pr_result, pr_items, pr_tasks>>

\* get_odm_hosts
VARIABLES
    env,          \* the value of the environment variable host_env, None when unset
    default_host, \* parameter default
    gh_pc,        \* "call" | "returned"
    gh_result     \* the list returned

hostvars == <<env, default_host, gh_pc, gh_result>>

\* _merge_odm_options
VARIABLES
    heap,        \* the dict objects: object name -> mapping
    base0,       \* history: the mapping base held when the call was made
    extra0,      \* history: the mapping extra held when the call was made
    mg_pc,       \* "call" | "returned"
    merged_ref,  \* the object returned by _merge_odm_options(base, extra)
    swapped      \* the mapping returned by _merge_odm_options(extra, base)

mergevars == <<heap, base0, extra0, mg_pc, merged_ref, swapped>>

\* submit_task
VARIABLES
    dir_files,   \* the file names in images_dir
    sub_pc,      \* "glob" | "uploading" | "returned" | "raised"
    images,      \* local, line 64
    last_p,      \* local, line 70: last["p"]
    logged,      \* the percentages written by log.info at line 85
    node_tasks,  \* the tasks created on the node: the file list of each
    sub_error,   \* the exception that left the function, "" before
    callbacks    \* history: the pct argument of every on_upload call

subvars == <<dir_files, sub_pc, images, last_p, logged, node_tasks, sub_error,
             callbacks>>

\* run_pipeline
VARIABLES
    video_exists,      \* the file at video_path exists
    copy_processed,    \* parameter
    rp_pc,             \* the line the run is at: "start", a stage, "finish", "returned", "raised"
    rp_hosts,          \* local hosts, line 216
    rp_host,           \* local host, line 217
    rp_node,           \* local node, line 218: the address the Node object was made for
    rp_task,           \* local task, line 224: the handle submit_task returned
    rp_error,          \* the exception that left run_pipeline, NoFault before
    completed_logged,  \* "Pipeline completed successfully." was logged, line 236
    dirs,              \* the run's directories that exist on disk
    processed_files,   \* the files written into processed_dir by this run
    contacted,         \* the node addresses a request was sent to (probe or connect)
    created,           \* the remote tasks created: the node and the handle of each
    monitored,         \* history: the handle of every wait_for_completion call
    retrieved,         \* history: the handle of every download_assets call
    started,           \* history: the stages in the order their calls were made
    stage_fault,       \* history: the exception a stage raised, NoFault if none did
    mon_outcome,       \* history: how the monitored task ended, "" before
    retrieval_ok       \* history: download_assets returned normally

runvars == <<video_exists, copy_processed, rp_pc, rp_hosts, rp_host, rp_node, rp_task,
             rp_error, completed_logged, dirs, processed_files, contacted, created,
             monitored, retrieved, started, stage_fault, mon_outcome, retrieval_ok>>

\* download_assets
VARIABLES
    rt_fs,    \* the disk at out_dir: what its parent is and what out_dir is
    rt_log    \* history: per call, out_dir before and after and how the call ended

retrvars == <<rt_fs, rt_log>>

\* _copy_summary_outputs
VARIABLES
    cs_bundle,     \* odm_out_dir: per candidate path, "file" or "absent"
    cs_pc,         \* "start" | "loop" | "returned" | "raised"
    cs_i,          \* position in candidates of the path the loop handles next
    cs_dir,        \* the disk at processed_dir
    cs_processed,  \* the files of processed_dir: name and whose bytes it holds
    cs_error       \* the exception that left the function and the path it was at

curvars == <<cs_bundle, cs_pc, cs_i, cs_dir, cs_processed, cs_error>>

\* extract_frames
VARIABLES
    fr_dir,        \* the frame files in out_dir: the number n of each frame_<n>.jpg
    fr_max,        \* params.max_frames
    fr_pc,         \* "ffmpeg" | "cap" | "returned" | "raised"
    fr_before,     \* history: the frame files out_dir held when the call was made
    fr_extracted   \* history: the frame files ffmpeg wrote in this call

framevars == <<fr_dir, fr_max, fr_pc, fr_before, fr_extracted>>

vars == <<monvars, selvars, probevars, hostvars, mergevars, subvars, runvars, retrvars,
          curvars, framevars>>

----------------------------------------------------------------------------
\* Bounds of the model

MaxPolls == 5       \* task.info() calls explored per monitor run
MaxCeiling == 2     \* largest max_connection_errors explored

----------------------------------------------------------------------------
\* Values

None == <<>>
Some(x) == <<x>>

\* Python truthiness of an optional string / optional int
TruthyStr(o) == o /= None /\ o[1] /= ""
TruthyInt(o) == o /= None /\ o[1] /= 0

\* a or b, on optional strings
OrStr(a, b) == IF TruthyStr(a) THEN a ELSE b

\* The task handles create_task() can give: the identifier exposed as uuid,
\* as task_id, or only through the string form (odm_task.py line 94).
Tasks ==
    { [uuid |-> Some("u-1"), task_id |-> None,        str |-> "u-1"],
      [uuid |-> None,        task_id |-> Some("t-2"), str |-> "t-2"],
      [uuid |-> None,        task_id |-> None,        str |-> "s-3"] }

PollSecondsVals == {10}

\* Raw status fields of a payload.  kind "none": the field is missing/None;
\* "enum": a TaskStatus member, text is its .name; "str": a plain string;
\* "other": any other object (for instance the dict {'code': 40}), text is
\* its str() form.
EnumNames == {"QUEUED", "RUNNING", "COMPLETED", "FAILED", "CANCELED"}
NoStatus == [kind |-> "none", text |-> ""]
RawStatuses ==
    {NoStatus}
    \cup {[kind |-> "enum", text |-> n] : n \in EnumNames}
    \cup {[kind |-> "str", text |-> "CANCELED"]}
    \cup {[kind |-> "other", text |-> "{'code': 40}"]}

RawProgress == {None, Some(10), Some(100)}
RawLastError == {None, Some("out of memory")}

\* The payloads task.info() can return; the remote sets an error message
\* only on a task that failed or was canceled.
Infos ==
    { i \in [status : RawStatuses, progress : RawProgress, last_error : RawLastError] :
        i.last_error /= None => i.status.text \in {"FAILED", "CANCELED"} }

NoInfo == [status |-> NoStatus, progress |-> None, last_error |-> None]

NoError == [kind |-> "none", uuid |-> None, status |-> "", last_error |-> None,
            info |-> NoInfo]

----------------------------------------------------------------------------
\* Pure helpers of odm_task.py

\* _safe(info, name, default): the field, or the default when it is missing.
\* A missing field and a field holding None are both <<>> here, and every
\* call site passes None (or 0 followed by "or 0") as the default.
_safe(obj, name) == obj[name]

_status_to_str(status) ==
    IF status.kind = "none" THEN "UNKNOWN"
    ELSE IF status.kind = "enum" /\ status.text /= "" THEN status.text
    ELSE IF status.kind = "str" THEN status.text
    ELSE status.text

\* int(_safe(info, "progress", 0) or 0)
ProgressOf(i) == IF TruthyInt(_safe(i, "progress")) THEN _safe(i, "progress")[1] ELSE 0

\* max(0, min(100, progress))
Clamp(p) == IF p < 0 THEN 0 ELSE IF p > 100 THEN 100 ELSE p

----------------------------------------------------------------------------
\* Components: a component that is not running keeps its idle state

MonIdle ==
    /\ task = [uuid |-> None, task_id |-> None, str |-> ""]
    /\ poll_seconds = 0
    /\ max_connection_errors = 0
    /\ uuid = None
    /\ last_progress = -1
    /\ consecutive_conn_errors = 0
    /\ info = NoInfo
    /\ pbar_n = 0
    /\ pbar_closed = FALSE
    /\ refreshes = <<>>
    /\ pc = "idle"
    /\ error = NoError
    /\ hist = <<>>
    /\ progress_seq = <<>>
    /\ only_running = TRUE
    /\ slept = <<>>

SelIdle ==
    /\ hosts = <<>>
    /\ sel_pc = "idle"
    /\ sel_i = 1
    /\ best = None
    /\ sel_result = None
    /\ sel_error = ""
    /\ probed = <<>>

ProbeIdle ==
    /\ pr_pc = "idle"
    /\ uuids = <<>>
    /\ pr_i = 1
    /\ running = 0
    /\ queued = 0
    /\ pr_result = None
    /\ pr_items = <<>>
    /\ pr_tasks = <<>>

HostsIdle ==
    /\ env = None
    /\ default_host = <<>>
    /\ gh_pc = "idle"
    /\ gh_result = <<>>

MergeIdle ==
    /\ heap = <<>>
    /\ base0 = <<>>
    /\ extra0 = <<>>
    /\ mg_pc = "idle"
    /\ merged_ref = ""
    /\ swapped = <<>>

SubmitIdle ==
    /\ dir_files = {}
    /\ sub_pc = "idle"
    /\ images = <<>>
    /\ last_p = -1
    /\ logged = <<>>
    /\ node_tasks = <<>>
    /\ sub_error = ""
    /\ callbacks = <<>>

NoFault == [stage |-> "", exc |-> ""]

RunIdle ==
    /\ video_exists = FALSE
    /\ copy_processed = FALSE
    /\ rp_pc = "idle"
    /\ rp_hosts = <<>>
    /\ rp_host = ""
    /\ rp_node = ""
    /\ rp_task = ""
    /\ rp_error = NoFault
    /\ completed_logged = FALSE
    /\ dirs = {}
    /\ processed_files = {}
    /\ contacted = {}
    /\ created = <<>>
    /\ monitored = <<>>
    /\ retrieved = <<>>
    /\ started = <<>>
    /\ stage_fault = NoFault
    /\ mon_outcome = ""
    /\ retrieval_ok = FALSE

RetrieveIdle ==
    /\ rt_fs = <<>>
    /\ rt_log = <<>>

CurateIdle ==
    /\ cs_bundle = <<>>
    /\ cs_pc = "idle"
    /\ cs_i = 1
    /\ cs_dir = <<>>
    /\ cs_processed = {}
    /\ cs_error = <<>>

FramesIdle ==
    /\ fr_dir = {}
    /\ fr_max = 0
    /\ fr_pc = "idle"
    /\ fr_before = {}
    /\ fr_extracted = {}

\* every component but c is idle
Idle(c) ==
    /\ IF c = "monitor" THEN TRUE ELSE MonIdle
    /\ IF c = "select" THEN TRUE ELSE SelIdle
    /\ IF c = "probe" THEN TRUE ELSE ProbeIdle
    /\ IF c = "hosts" THEN TRUE ELSE HostsIdle
    /\ IF c = "merge" THEN TRUE ELSE MergeIdle
    /\ IF c = "submit" THEN TRUE ELSE SubmitIdle
    /\ IF c = "run" THEN TRUE ELSE RunIdle
    /\ IF c = "retrieve" THEN TRUE ELSE RetrieveIdle
    /\ IF c = "curate" THEN TRUE ELSE CurateIdle
    /\ IF c = "frames" THEN TRUE ELSE FramesIdle

\* a step of component c leaves every other component as it is
Frame(c) ==
    /\ IF c = "monitor" THEN TRUE ELSE UNCHANGED monvars
    /\ IF c = "select" THEN TRUE ELSE UNCHANGED selvars
    /\ IF c = "probe" THEN TRUE ELSE UNCHANGED probevars
    /\ IF c = "hosts" THEN TRUE ELSE UNCHANGED hostvars
    /\ IF c = "merge" THEN TRUE ELSE UNCHANGED mergevars
    /\ IF c = "submit" THEN TRUE ELSE UNCHANGED subvars
    /\ IF c = "run" THEN TRUE ELSE UNCHANGED runvars
    /\ IF c = "retrieve" THEN TRUE ELSE UNCHANGED retrvars
    /\ IF c = "curate" THEN TRUE ELSE UNCHANGED curvars
    /\ IF c = "frames" THEN TRUE ELSE UNCHANGED framevars

----------------------------------------------------------------------------
\* wait_for_completion: the decisions of the loop

\* while True (line 198): the loop head has no exit condition; n is the
\* number of queries made so far.
KeepPolling_Timeout(n) == n < 2
KeepPolling(n) == TRUE

\* The except clause that catches an exception raised by task.info()
\* (lines 202 and 216).
Handler_CatchAll(exc) == "retry"
Handler(exc) ==
    CASE exc = "NodeConnectionError" -> "retry"
      [] exc = "NodeResponseError" -> "not_found"

\* line 201: consecutive_conn_errors = 0
CounterAfterSuccess_NoReset(c) == c
CounterAfterSuccess(c) == 0

\* line 208: consecutive_conn_errors >= max_connection_errors
CeilingReached_OffByOne(c, max) == c > max
CeilingReached(c, max) == c >= max

\* line 231: progress != last_progress
ProgressChanged_Always(progress, last) == TRUE
ProgressChanged(progress, last) == progress /= last

\* line 236: status in ("COMPLETED", "FAILED", "CANCELED")
IsTerminal_WithUnknown(status) == status \in {"COMPLETED", "FAILED", "CANCELED", "UNKNOWN"}
IsTerminal(status) == status \in {"COMPLETED", "FAILED", "CANCELED"}

\* line 237: status == "COMPLETED"
IsCompleted_NotFailed(status) == status /= "FAILED"
IsCompleted(status) == status = "COMPLETED"

----------------------------------------------------------------------------
\* wait_for_completion: the handlers.  L is the record of the locals.

Locals ==
    [pc |-> pc, last_progress |-> last_progress,
     consecutive_conn_errors |-> consecutive_conn_errors, info |-> info,
     pbar_n |-> pbar_n, pbar_closed |-> pbar_closed, refreshes |-> refreshes,
     error |-> error]

\* pbar.n = v; pbar.refresh()
Refresh(L, v) == [L EXCEPT !.pbar_n = v, !.refreshes = Append(@, v)]

\* lines 210-213: the message interpolates uuid only
LostConnectionError(id) == [NoError EXCEPT !.kind = "lost", !.uuid = id]

\* lines 219-224
NotFoundError(id) == [NoError EXCEPT !.kind = "not_found", !.uuid = id]

\* lines 245-247: the message interpolates status, last_error and info
StatusError(status, last_error, i) ==
    [NoError EXCEPT !.kind = "status", !.status = status,
                    !.last_error = last_error, !.info = i]

\* except NodeConnectionError (lines 202-215)
OnConnectionError_NoSleep(L, max, id) ==
    LET c == L.consecutive_conn_errors + 1 IN
    IF CeilingReached(c, max)
    THEN [L EXCEPT !.consecutive_conn_errors = c, !.pbar_closed = TRUE,
                   !.pc = "raised", !.error = LostConnectionError(id)]
    ELSE [L EXCEPT !.consecutive_conn_errors = c, !.pc = "query"]
OnConnectionError_ResetsProgress(L, max, id) ==
    LET c == L.consecutive_conn_errors + 1 IN
    IF CeilingReached(c, max)
    THEN [L EXCEPT !.consecutive_conn_errors = c, !.pbar_closed = TRUE,
                   !.pc = "raised", !.error = LostConnectionError(id)]
    ELSE [L EXCEPT !.consecutive_conn_errors = c, !.last_progress = -1,
                   !.pc = "sleep"]
OnConnectionError_TestsBeforeCounting(L, max, id) ==
    IF CeilingReached(L.consecutive_conn_errors, max)
    THEN [L EXCEPT !.pbar_closed = TRUE, !.pc = "raised",
                   !.error = LostConnectionError(id)]
    ELSE [L EXCEPT !.consecutive_conn_errors = @ + 1, !.pc = "sleep"]
OnConnectionError(L, max, id) ==
    LET c == L.consecutive_conn_errors + 1 IN
    IF CeilingReached(c, max)
    THEN [L EXCEPT !.consecutive_conn_errors = c, !.pbar_closed = TRUE,
                   !.pc = "raised", !.error = LostConnectionError(id)]
    ELSE [L EXCEPT !.consecutive_conn_errors = c, !.pc = "sleep"]

\* except NodeResponseError (lines 216-224)
OnResponseError_KeepsPolling(L, id) == [L EXCEPT !.pc = "sleep"]
OnResponseError(L, id) ==
    [L EXCEPT !.pbar_closed = TRUE, !.pc = "raised", !.error = NotFoundError(id)]

\* task.info() returned i (lines 200-201 and 226-249)
OnInfo(L, i) ==
    LET status == _status_to_str(_safe(i, "status"))
        progress == ProgressOf(i)
        last_error == _safe(i, "last_error")
        L1 == [L EXCEPT !.info = i,
                        !.consecutive_conn_errors = CounterAfterSuccess(@)]
        L2 == IF ProgressChanged(progress, L1.last_progress)
              THEN [Refresh(L1, Clamp(progress)) EXCEPT !.last_progress = progress]
              ELSE L1
    IN  IF IsTerminal(status)
        THEN IF IsCompleted(status)
             THEN [Refresh(L2, 100) EXCEPT !.pbar_closed = TRUE, !.pc = "returned"]
             ELSE [L2 EXCEPT !.pbar_closed = TRUE, !.pc = "raised",
                             !.error = StatusError(status, last_error, i)]
        ELSE [L2 EXCEPT !.pc = "sleep"]

----------------------------------------------------------------------------
\* The state machine

\* wait_for_completion(task, poll_seconds, max_connection_errors) after
\* lines 192-196.
Init ==
    /\ task \in Tasks
    /\ poll_seconds \in PollSecondsVals
    /\ max_connection_errors \in 1..MaxCeiling
    /\ uuid = OrStr(task.uuid, task.task_id)
    /\ last_progress = -1
    /\ consecutive_conn_errors = 0
    /\ info = NoInfo
    /\ pbar_n = 0
    /\ pbar_closed = FALSE
    /\ refreshes = <<>>
    /\ pc = "query"
    /\ error = NoError
    /\ hist = <<>>
    /\ progress_seq = <<>>
    /\ only_running = TRUE
    /\ slept = <<>>
    /\ Idle("monitor")

Assign(L) ==
    /\ pc' = L.pc
    /\ last_progress' = L.last_progress
    /\ consecutive_conn_errors' = L.consecutive_conn_errors
    /\ info' = L.info
    /\ pbar_n' = L.pbar_n
    /\ pbar_closed' = L.pbar_closed
    /\ refreshes' = L.refreshes
    /\ error' = L.error

CanQuery == pc = "query" /\ Len(hist) < MaxPolls

\* task.info() raises exc
PollRaises(exc) ==
    /\ CanQuery
    /\ Assign(IF Handler(exc) = "retry"
              THEN OnConnectionError(Locals, max_connection_errors, uuid)
              ELSE OnResponseError(Locals, uuid))
    /\ hist' = Append(hist, exc)
    /\ only_running' = FALSE
    /\ UNCHANGED <<task, poll_seconds, max_connection_errors, uuid,
                   progress_seq, slept>>
    /\ Frame("monitor")

\* task.info() returns a payload
PollOk ==
    /\ CanQuery
    /\ \E i \in Infos :
        /\ Assign(OnInfo(Locals, i))
        /\ hist' = Append(hist, "ok")
        /\ progress_seq' = Append(progress_seq, ProgressOf(i))
        /\ only_running' = (only_running /\ i.status.text = "RUNNING")
    /\ UNCHANGED <<task, poll_seconds, max_connection_errors, uuid, slept>>
    /\ Frame("monitor")

\* time.sleep(poll_seconds) (lines 214-215 and 249), then the loop head
Sleep ==
    /\ pc = "sleep"
    /\ slept' = Append(slept, poll_seconds)
    /\ pc' = IF KeepPolling(Len(hist)) THEN "query" ELSE "returned"
    /\ UNCHANGED <<task, poll_seconds, max_connection_errors, uuid,
                   last_progress, consecutive_conn_errors, info, pbar_n,
                   pbar_closed, refreshes, error, hist, progress_seq,
                   only_running>>
    /\ Frame("monitor")

Next ==
    \/ PollRaises("NodeConnectionError")
    \/ PollRaises("NodeResponseError")
    \/ PollOk
    \/ Sleep

Spec == Init /\ [][Next]_vars

TypeOK ==
    /\ pc \in {"query", "sleep", "returned", "raised"}
    /\ consecutive_conn_errors \in 0..MaxCeiling
    /\ Len(hist) <= MaxPolls

----------------------------------------------------------------------------
\* Reading the history

Fault == "NodeConnectionError"
NotFound == "NodeResponseError"

Last(s) == s[Len(s)]
Front(s) == SubSeq(s, 1, Len(s) - 1)
Range(s) == {s[i] : i \in 1..Len(s)}
Done == pc \in {"returned", "raised"}

\* the last query succeeded, so info is its payload
LastOk == hist /= <<>> /\ Last(hist) = "ok"

\* length of the streak of connectivity faults that ends h
RECURSIVE TrailingFaults(_)
TrailingFaults(h) ==
    IF h = <<>> \/ Last(h) /= Fault THEN 0 ELSE 1 + TrailingFaults(Front(h))

\* length of the longest streak of connectivity faults in h
RECURSIVE MaxStreak(_)
MaxStreak(h) ==
    IF h = <<>> THEN 0
    ELSE LET m == MaxStreak(Front(h))
             t == TrailingFaults(h)
         IN  IF t > m THEN t ELSE m

CountFaults(h) == Cardinality({i \in 1..Len(h) : h[i] = Fault})

\* the remote reported the status named n (as a TaskStatus member or as a string)
Reported(n) == LastOk /\ info.status.kind \in {"enum", "str"} /\ info.status.text = n

----------------------------------------------------------------------------
\* C1: for a ceiling N >= 1 the monitor fails with the lost-connection error
\* exactly on the N-th consecutive connectivity fault: a streak never grows
\* past N, the error is raised if and only if the history ends with N
\* consecutive faults, and N-1 faults followed by a success leave it running.
C1_FailsExactlyAtCeiling ==
    LET t == TrailingFaults(hist) IN
    /\ t <= max_connection_errors
    /\ (error.kind = "lost") <=> (t = max_connection_errors)
    /\ error.kind = "lost" => pc = "raised"
    /\ (t < max_connection_errors /\ hist /= <<>> /\ Last(hist) = Fault) => pc \in {"sleep", "query"}

\* N >= 2: N-1 faults, a success, then N faults: the monitor survived the
\* first streak and failed on the last fault of the second.
C1_Witness ==
    LET N == max_connection_errors IN
    /\ N >= 2
    /\ Len(hist) = 2 * N
    /\ \A i \in 1..(N - 1) : hist[i] = Fault
    /\ hist[N] = "ok"
    /\ error.kind = "lost"

\* C2: a successful query resets the counter to zero, so only consecutive
\* faults count: while every streak of faults is shorter than the ceiling the
\* lost-connection error is never raised, whatever the total number of faults.
C2_OnlyConsecutiveFaultsCount ==
    /\ LastOk => consecutive_conn_errors = 0
    /\ NotFound \notin Range(hist) => consecutive_conn_errors = TrailingFaults(hist)
    /\ MaxStreak(hist) < max_connection_errors => error.kind /= "lost"

\* more faults in total than the ceiling, no streak reaching it, the monitor goes on
C2_Witness ==
    /\ CountFaults(hist) > max_connection_errors
    /\ MaxStreak(hist) < max_connection_errors
    /\ "ok" \in Range(hist)
    /\ pc = "sleep"

\* C3: a not-found fault ends the monitor on the poll where it occurs: it is
\* the last query, the not-found error is raised, no sleep follows it, and
\* the connectivity counter keeps the value it had before that poll.
C3_NotFoundIsImmediatelyFatal ==
    \A i \in 1..Len(hist) :
        hist[i] = NotFound =>
            /\ i = Len(hist)
            /\ pc = "raised"
            /\ error.kind = "not_found"
            /\ Len(slept) = i - 1
            /\ consecutive_conn_errors = TrailingFaults(SubSeq(hist, 1, i - 1))

\* a not-found fault that arrives while the counter is above zero
C3_Witness ==
    /\ hist /= <<>>
    /\ Last(hist) = NotFound
    /\ consecutive_conn_errors > 0
    /\ pc = "raised"

\* C4: the monitor returns normally if and only if the last query succeeded
\* and reported COMPLETED; a successful query reporting FAILED or CANCELED
\* makes it raise; it never returns with an error outcome behind it.
C4_ReturnsIffCompleted ==
    /\ pc = "returned" <=> Reported("COMPLETED")
    /\ (Reported("FAILED") \/ Reported("CANCELED")) => (pc = "raised" /\ error.kind = "status")
    /\ pc = "returned" => (error = NoError /\ NotFound \notin Range(hist))
    /\ error.kind /= "none" <=> pc = "raised"

\* COMPLETED reported after at least one earlier poll
C4_Witness ==
    /\ pc = "returned"
    /\ Len(hist) >= 2
    /\ Reported("COMPLETED")

\* the status field of the last payload names no terminal state
NonTerminalReported ==
    LastOk /\ ~(info.status.kind \in {"enum", "str"}
                /\ info.status.text \in {"COMPLETED", "FAILED", "CANCELED"})

\* the status field of the last payload is missing or is no status name
Unclassifiable == LastOk /\ info.status.kind \in {"none", "other"}

\* after the last query the monitor sleeps poll_seconds and queries again
SleepsAndPollsAgain ==
    /\ error = NoError
    /\ ~pbar_closed
    /\ \/ pc = "sleep" /\ Len(slept) = Len(hist) - 1
       \/ pc = "query" /\ Len(slept) = Len(hist) /\ Last(slept) = poll_seconds

RECURSIVE Changes(_, _)
Changes(s, last) ==
    IF s = <<>> THEN <<>>
    ELSE IF Head(s) = last THEN Changes(Tail(s), last)
    ELSE <<Clamp(Head(s))>> \o Changes(Tail(s), Head(s))

NoDuplicates(s) == \A i, j \in 1..Len(s) : s[i] = s[j] => i = j

\* C6 as stated: the observer is notified exactly once per distinct progress
\* value, and of no value twice.
C6_OncePerDistinctValue ==
    /\ NoDuplicates(refreshes)
    /\ Range(refreshes) = Range(progress_seq)

\* C6, amended: the observer is notified once for every successful poll
\* whose progress differs from that of the previous successful poll (never
\* for an unchanged value), and once more, with 100, when the task is
\* COMPLETED.
C6_NotifiedOncePerChange ==
    refreshes = Changes(progress_seq, -1) \o (IF pc = "returned" THEN <<100>> ELSE <<>>)

\* the progress sequence 0, 0, 10, 10, 100 gave the notifications 0, 10, 100
C6_Witness ==
    /\ progress_seq = <<0, 0, 10, 10, 100>>
    /\ refreshes = <<0, 10, 100>>

\* C7: there is no overall timeout: as long as every query succeeds and
\* reports RUNNING the monitor neither returns nor raises, however many
\* queries were made.
C7_RunningIsPolledForever ==
    only_running => (~Done /\ error = NoError /\ ~pbar_closed)

\* RUNNING on every query the model explores, and the next query is due
C7_Witness ==
    /\ only_running
    /\ Len(hist) = MaxPolls
    /\ pc = "query"

\* C8: exactly one sleep of poll_seconds separates two consecutive queries:
\* when a query is due as many sleeps as queries have happened, otherwise
\* one less.
C8_OneSleepBetweenQueries ==
    /\ pc = "query" => Len(slept) = Len(hist)
    /\ (pc /= "query" /\ hist /= <<>>) => Len(slept) = Len(hist) - 1
    /\ \A i \in 1..Len(slept) : slept[i] = poll_seconds

\* a query after a connectivity fault and a query after a non-terminal success
C8_Witness ==
    /\ Len(hist) >= 3
    /\ hist[1] = Fault
    /\ hist[2] = "ok"
    /\ Len(slept) >= 2

\* C9: a poll that ends in a connectivity fault below the ceiling increments
\* the counter and changes nothing else: last progress, task, identifier,
\* payload and progress bar are as before and no notification is emitted.
C9_FaultChangesOnlyCounter ==
    [][(hist' = Append(hist, Fault) /\ pc' = "sleep") =>
         /\ consecutive_conn_errors' = consecutive_conn_errors + 1
         /\ UNCHANGED <<last_progress, task, uuid, info, pbar_n, pbar_closed,
                        refreshes, error, progress_seq, slept>>]_vars

\* a fault below the ceiling after progress 10 had been reported
C9_Witness ==
    /\ hist /= <<>>
    /\ Last(hist) = Fault
    /\ pc = "sleep"
    /\ last_progress = 10
    /\ refreshes = <<10>>

\* C10: the error raised for FAILED or CANCELED carries the last reported
\* progress, the last-error detail and the full status payload.
C10_StatusErrorCarriesDiagnostic ==
    (Reported("FAILED") \/ Reported("CANCELED")) =>
        /\ error.kind = "status"
        /\ error.last_error = info.last_error
        /\ error.info = info
        /\ error.info.progress = Some(last_progress)

\* the identifier submit_task logs for the handle it returns (line 94):
\* getattr(task, "uuid", None) or getattr(task, "task_id", None) or str(task)
SubmittedId(t) == OrStr(OrStr(t.uuid, t.task_id), Some(t.str))

\* C11: the error raised at the ceiling names the task id of the monitored
\* task, for every handle submit_task can return.
C11_LostErrorNamesTask ==
    error.kind = "lost" => error.uuid = SubmittedId(task)

----------------------------------------------------------------------------
\* pick_best_odm_host (odm_client.py): values

MaxHosts == 3    \* longest address list explored

\* An address is the text [scheme://]host[:port]; port is absent, a number
\* or text that is no number.
NoPort == [kind |-> "none", num |-> 0]
NumPort(n) == [kind |-> "num", num |-> n]
BadPort == [kind |-> "bad", num |-> 0]

Addresses ==
    { [scheme |-> "",     host |-> "n1", port |-> NumPort(3000)],   \* n1:3000
      [scheme |-> "http", host |-> "n2", port |-> NoPort],          \* http://n2
      [scheme |-> "",     host |-> "n3", port |-> BadPort] }        \* n3:abc

\* the (running, queued, total) tuples a probe can return
Loads == { <<r, q, r + q + o>> : r \in {0, 2}, q \in {1, 5}, o \in {0, 1} }

RECURSIVE SeqsUpTo(_, _)
SeqsUpTo(S, n) ==
    IF n = 0 THEN {<<>>}
    ELSE LET shorter == SeqsUpTo(S, n - 1)
         IN  shorter \cup {Append(q, x) : q \in {t \in shorter : Len(t) = n - 1}, x \in S}

\* _normalize_base_url (lines 166-174): the scheme defaults to http, the
\* host to localhost, the port to 3000; urlparse's .port raises ValueError
\* for a port that is no number.
_normalize_base_url(h) ==
    IF h.port.kind = "bad"
    THEN [ok |-> FALSE, scheme |-> "", host |-> "", port |-> 0]
    ELSE [ok |-> TRUE,
          scheme |-> IF h.scheme = "" THEN "http" ELSE h.scheme,
          host |-> IF h.host = "" THEN "localhost" ELSE h.host,
          port |-> IF h.port.kind = "num" /\ h.port.num /= 0 THEN h.port.num ELSE 3000]

\* a < b on (running, queued, total) tuples, as Python compares tuples
TupleLess(a, b) ==
    \/ a[1] < b[1]
    \/ a[1] = b[1] /\ a[2] < b[2]
    \/ a[1] = b[1] /\ a[2] = b[2] /\ a[3] < b[3]

\* line 260: best is None or cand[:3] < best[:3]
Better(cand, b) == b = None \/ TupleLess(SubSeq(cand, 1, 3), SubSeq(b[1], 1, 3))

----------------------------------------------------------------------------
\* pick_best_odm_host: the state machine

SelInit ==
    /\ hosts \in SeqsUpTo(Addresses, MaxHosts)
    /\ sel_pc = "check"
    /\ sel_i = 1
    /\ best = None
    /\ sel_result = None
    /\ sel_error = ""
    /\ probed = <<>>
    /\ Idle("select")

\* lines 251-254
SelCheck ==
    /\ sel_pc = "check"
    /\ IF hosts = <<>>
       THEN sel_pc' = "raised" /\ sel_error' = "ValueError: hosts must be non-empty"
       ELSE sel_pc' = "loop" /\ sel_error' = sel_error
    /\ UNCHANGED <<hosts, sel_i, best, sel_result, probed>>
    /\ Frame("select")

InLoop == sel_pc = "loop" /\ sel_i <= Len(hosts)

\* line 256 raises: the call is outside the try block, the error leaves the
\* function
SelBadAddress ==
    /\ InLoop
    /\ ~_normalize_base_url(hosts[sel_i]).ok
    /\ sel_pc' = "raised"
    /\ sel_error' = "ValueError: port"
    /\ probed' = Append(probed, [kind |-> "bad_address", load |-> <<0, 0, 0>>])
    /\ UNCHANGED <<hosts, sel_i, best, sel_result>>
    /\ Frame("select")

\* lines 256-261: the probe returns a tuple
SelProbeOk ==
    /\ InLoop
    /\ _normalize_base_url(hosts[sel_i]).ok
    /\ \E load \in Loads :
        LET cand == load \o <<hosts[sel_i]>> IN
        /\ best' = IF Better(cand, best) THEN Some(cand) ELSE best
        /\ probed' = Append(probed, [kind |-> "ok", load |-> load])
    /\ sel_i' = sel_i + 1
    /\ UNCHANGED <<hosts, sel_pc, sel_result, sel_error>>
    /\ Frame("select")

\* lines 256-258 and 262-263: the probe raises
SelProbeFails ==
    /\ InLoop
    /\ _normalize_base_url(hosts[sel_i]).ok
    /\ probed' = Append(probed, [kind |-> "fail", load |-> <<0, 0, 0>>])
    /\ sel_i' = sel_i + 1
    /\ UNCHANGED <<hosts, sel_pc, best, sel_result, sel_error>>
    /\ Frame("select")

\* line 265
SelReturn ==
    /\ sel_pc = "loop"
    /\ sel_i > Len(hosts)
    /\ sel_result' = IF best /= None THEN Some(best[1][4]) ELSE Some(hosts[1])
    /\ sel_pc' = "returned"
    /\ UNCHANGED <<hosts, sel_i, best, sel_error, probed>>
    /\ Frame("select")

SelNext ==
    \/ SelCheck
    \/ SelBadAddress
    \/ SelProbeOk
    \/ SelProbeFails
    \/ SelReturn

SpecSelect == SelInit /\ [][SelNext]_vars

----------------------------------------------------------------------------
\* Reading the selection

SelDone == sel_pc \in {"returned", "raised"}
OkProbes == {i \in 1..Len(probed) : probed[i].kind = "ok"}
FailedProbes == {i \in 1..Len(probed) : probed[i].kind = "fail"}

\* position i was probed successfully with a tuple no other success beats
MinimalAt(i) ==
    /\ i \in OkProbes
    /\ \A j \in OkProbes : ~TupleLess(probed[j].load, probed[i].load)

\* the function returned the address of a minimal successful probe
ReturnedMinimal ==
    /\ sel_pc = "returned"
    /\ \E i \in OkProbes : MinimalAt(i) /\ sel_result = Some(hosts[i])

\* On address lists in which every address has a well-formed port the
\* selection does rank and fall back as described (C12, C13, C14 fail on
\* the other lists only).
WellFormedList == \A i \in 1..Len(hosts) : _normalize_base_url(hosts[i]).ok
SelOnWellFormedLists ==
    (WellFormedList /\ SelDone) =>
        /\ sel_pc = "raised" <=> hosts = <<>>
        /\ (OkProbes /= {}) => ReturnedMinimal
        /\ (hosts /= <<>> /\ OkProbes = {}) => sel_result = Some(hosts[1])

\* C12: when at least one probe succeeds, the selection returns an address
\* whose probed tuple is lexicographically minimal among the successfully
\* probed addresses; an address whose probe failed is not returned.
C12_ReturnsMinimalLoad ==
    (SelDone /\ OkProbes /= {}) => ReturnedMinimal

\* C13: when every probe fails, the selection returns the address at
\* position 0 of the list, whatever the rest of the list is, and does not
\* raise.
C13_AllFailReturnsFirst ==
    (SelDone /\ FailedProbes /= {} /\ OkProbes = {}) =>
        (sel_pc = "returned" /\ sel_result = Some(hosts[1]))

\* C14: the selection raises only when the list is empty; no failure of a
\* single address leaves the function.
C14_RaisesOnlyOnEmptyList ==
    sel_pc = "raised" => hosts = <<>>

----------------------------------------------------------------------------
\* _node_load (odm_client.py): the state machine

MaxTasks == 3    \* longest /task/list response explored

\* an item of the /task/list response: its uuid, None when the item is no
\* dict or has no (truthy) uuid
Items == {None, Some("t")}

\* the status code of a /task/<uuid>/info response, None when it has none
StatusCodes == {None, Some(10), Some(20), Some(40)}

\* line 204
RECURSIVE UuidsOf(_)
UuidsOf(items) ==
    IF items = <<>> THEN <<>>
    ELSE IF Head(items) /= None THEN <<Head(items)[1]>> \o UuidsOf(Tail(items))
    ELSE UuidsOf(Tail(items))

\* lines 211-214; st holds the locals running and queued and the position
CountTask(st, code) ==
    IF code = Some(20) THEN [st EXCEPT !.running = @ + 1]
    ELSE IF code = Some(10) THEN [st EXCEPT !.queued = @ + 1]
    ELSE st

\* lines 215-217: except Exception: continue
AfterTaskFailure_Aborts(st) == [st EXCEPT !.pc = "raised"]
AfterTaskFailure(st) == st

\* line 219
LoadTuple(st, ids) == <<st.running, st.queued, Len(ids)>>

ProbeInit ==
    /\ pr_pc = "list"
    /\ uuids = <<>>
    /\ pr_i = 1
    /\ running = 0
    /\ queued = 0
    /\ pr_result = None
    /\ pr_items = <<>>
    /\ pr_tasks = <<>>
    /\ Idle("probe")

ProbeLocals == [pc |-> pr_pc, running |-> running, queued |-> queued]

ProbeAssign(st) ==
    /\ pr_pc' = st.pc
    /\ running' = st.running
    /\ queued' = st.queued

\* lines 201-206: GET /task/list answers
ProbeListOk ==
    /\ pr_pc = "list"
    /\ \E items \in SeqsUpTo(Items, MaxTasks) :
        /\ pr_items' = items
        /\ uuids' = UuidsOf(items)
    /\ pr_pc' = "loop"
    /\ UNCHANGED <<pr_i, running, queued, pr_result, pr_tasks>>
    /\ Frame("probe")

\* lines 201-203 raise (no connection, timeout, HTTP error status, no JSON)
ProbeListFails ==
    /\ pr_pc = "list"
    /\ pr_pc' = "raised"
    /\ UNCHANGED <<uuids, pr_i, running, queued, pr_result, pr_items, pr_tasks>>
    /\ Frame("probe")

ProbeInLoop == pr_pc = "loop" /\ pr_i <= Len(uuids)

\* lines 207-214: the info query of the task answers
ProbeTaskOk ==
    /\ ProbeInLoop
    /\ \E code \in StatusCodes :
        /\ ProbeAssign(CountTask(ProbeLocals, code))
        /\ pr_tasks' = Append(pr_tasks, [kind |-> "ok", code |-> code])
    /\ pr_i' = pr_i + 1
    /\ UNCHANGED <<uuids, pr_result, pr_items>>
    /\ Frame("probe")

\* lines 207-210 raise, lines 215-217
ProbeTaskFails ==
    /\ ProbeInLoop
    /\ ProbeAssign(AfterTaskFailure(ProbeLocals))
    /\ pr_tasks' = Append(pr_tasks, [kind |-> "fail", code |-> None])
    /\ pr_i' = pr_i + 1
    /\ UNCHANGED <<uuids, pr_result, pr_items>>
    /\ Frame("probe")

\* line 219
ProbeReturn ==
    /\ pr_pc = "loop"
    /\ pr_i > Len(uuids)
    /\ pr_result' = Some(LoadTuple(ProbeLocals, uuids))
    /\ pr_pc' = "returned"
    /\ UNCHANGED <<uuids, pr_i, running, queued, pr_items, pr_tasks>>
    /\ Frame("probe")

ProbeNext ==
    \/ ProbeListOk
    \/ ProbeListFails
    \/ ProbeTaskOk
    \/ ProbeTaskFails
    \/ ProbeReturn

SpecProbe == ProbeInit /\ [][ProbeNext]_vars

----------------------------------------------------------------------------
\* Reading the probe

Answered == {i \in 1..Len(pr_tasks) : pr_tasks[i].kind = "ok"}
AnsweredWith(code) == {i \in Answered : pr_tasks[i].code = code}
FailedTasks == {i \in 1..Len(pr_tasks) : pr_tasks[i].kind = "fail"}

\* a failed info query does not abort the probe: the probe raises only when
\* the list request failed, and the loop handles every listed task
ProbeNotAborted ==
    /\ pr_pc = "raised" => pr_tasks = <<>>
    /\ pr_pc = "returned" => Len(pr_tasks) = Len(uuids)

\* C15 as stated: a failed per-task query does not abort the probe, and the
\* task is left out of the running, queued and total counts.
C15_FailedTaskInNoCount ==
    /\ ProbeNotAborted
    /\ pr_pc = "returned" =>
           pr_result = Some(<<Cardinality(AnsweredWith(Some(20))),
                              Cardinality(AnsweredWith(Some(10))),
                              Cardinality(Answered)>>)

\* C15, amended: a failed per-task query does not abort the probe; the task
\* is left out of the running and queued counts but is still counted in
\* total, which is the number of listed tasks.
C15_FailedTaskOnlyInTotal ==
    /\ ProbeNotAborted
    /\ pr_pc = "returned" =>
           pr_result = Some(<<Cardinality(AnsweredWith(Some(20))),
                              Cardinality(AnsweredWith(Some(10))),
                              Cardinality(Answered) + Cardinality(FailedTasks)>>)

\* a probe that returned although an info query failed, with a running task
\* counted
C15_Witness ==
    /\ pr_pc = "returned"
    /\ FailedTasks /= {}
    /\ AnsweredWith(Some(20)) /= {}
    /\ pr_result[1][3] > Cardinality(Answered)

----------------------------------------------------------------------------
\* get_odm_hosts (odm_client.py).  A string is the sequence of its
\* characters; "NL" is the newline character and "TAB" the tab character.

MaxStrLen == 3    \* longest value of the environment variable explored

Chars == {"a", "b", ",", " ", "NL", "TAB"}

\* the characters str.strip() removes
Whitespace == {" ", "NL", "TAB"}

\* the host_default values explored: a single address, a list, the empty
\* string
Defaults == { <<"d">>, <<"d", " ", "d">>, <<>> }

\* s.replace(from, to), for single characters
RECURSIVE Replace(_, _, _)
Replace(str, from, to) ==
    IF str = <<>> THEN <<>>
    ELSE <<IF Head(str) = from THEN to ELSE Head(str)>> \o Replace(Tail(str), from, to)

\* s.split(sep): the pieces between the separators, empty pieces included
RECURSIVE SplitAcc(_, _, _)
SplitAcc(str, sep, piece) ==
    IF str = <<>> THEN <<piece>>
    ELSE IF Head(str) = sep THEN <<piece>> \o SplitAcc(Tail(str), sep, <<>>)
    ELSE SplitAcc(Tail(str), sep, Append(piece, Head(str)))
Split(str, sep) == SplitAcc(str, sep, <<>>)

\* s.lstrip(), s.rstrip(), s.strip()
RECURSIVE LStrip(_)
LStrip(str) ==
    IF str /= <<>> /\ Head(str) \in Whitespace THEN LStrip(Tail(str)) ELSE str
RECURSIVE RStrip(_)
RStrip(str) ==
    IF str /= <<>> /\ str[Len(str)] \in Whitespace
    THEN RStrip(SubSeq(str, 1, Len(str) - 1)) ELSE str
Strip(str) == RStrip(LStrip(str))

\* [p.strip() for p in pieces if p.strip()]
RECURSIVE StripNonEmpty(_)
StripNonEmpty(pieces) ==
    IF pieces = <<>> THEN <<>>
    ELSE IF Strip(Head(pieces)) /= <<>>
         THEN <<Strip(Head(pieces))>> \o StripNonEmpty(Tail(pieces))
         ELSE StripNonEmpty(Tail(pieces))

\* line 41: os.getenv(host_env, default)
Getenv(value, default) == IF value = None THEN default ELSE value[1]

\* line 43
Parts(raw) == StripNonEmpty(Split(Replace(Replace(raw, "NL", ","), " ", ","), ","))

\* line 44: parts or [default]
OrDefault_NoFallback(parts, default) == parts
OrDefault(parts, default) == IF parts = <<>> THEN <<default>> ELSE parts

\* lines 43-44, for the source value raw
HostsFrom(raw, default) == OrDefault(Parts(raw), default)

HostsInit ==
    /\ env \in {None} \cup {Some(v) : v \in SeqsUpTo(Chars, MaxStrLen)}
    /\ default_host \in Defaults
    /\ gh_pc = "call"
    /\ gh_result = <<>>
    /\ Idle("hosts")

\* get_odm_hosts(host_env, default)
GetOdmHosts ==
    /\ gh_pc = "call"
    /\ gh_result' = HostsFrom(Getenv(env, default_host), default_host)
    /\ gh_pc' = "returned"
    /\ UNCHANGED <<env, default_host>>
    /\ Frame("hosts")

HostsNext == GetOdmHosts

SpecHosts == HostsInit /\ [][HostsNext]_vars

----------------------------------------------------------------------------
\* Reading the host resolution

\* the source value the resolution reads
SourceValue == Getenv(env, default_host)

Separators == {","} \cup Whitespace
OnlySeparators(str) == \A i \in 1..Len(str) : str[i] \in Separators

\* str with every separator character replaced by a comma
RECURSIVE Canonical(_)
Canonical(str) ==
    IF str = <<>> THEN <<>>
    ELSE <<IF Head(str) \in Separators THEN "," ELSE Head(str)>> \o Canonical(Tail(str))

Trimmed(str) == str /= <<>> /\ Head(str) \notin Whitespace /\ str[Len(str)] \notin Whitespace

\* C16: host resolution always returns a non-empty list, and exactly
\* [default] when the source value is empty or made of separators and
\* whitespace only.
C16_NeverEmpty ==
    /\ gh_pc \in {"call", "returned"}
    /\ gh_pc = "returned" =>
        /\ gh_result /= <<>>
        /\ OnlySeparators(SourceValue) => gh_result = <<default_host>>

\* the variable is set to separators only, a tab among them
C16_Witness ==
    /\ gh_pc = "returned"
    /\ env /= None
    /\ Len(env[1]) >= 2
    /\ OnlySeparators(env[1])
    /\ \E i \in 1..Len(env[1]) : env[1][i] = "TAB"
    /\ gh_result = <<default_host>>

\* C17: commas, newlines and whitespace are equivalent separators: the
\* list returned for a source value is the list returned for the value
\* with its separators replaced by others (here by commas), and every
\* address returned is non-empty and has no whitespace at its ends.
C17_SeparatorsEquivalent ==
    gh_pc = "returned" =>
        /\ gh_result = HostsFrom(Canonical(SourceValue), default_host)
        /\ \A i \in 1..Len(gh_result) : Trimmed(gh_result[i])

\* Without tabs in the source value, and with a fallback that is a single
\* trimmed address, the separators are equivalent (C17 fails on the other
\* inputs only).
HostsWithoutTabs ==
    (gh_pc = "returned" /\ "TAB" \notin {SourceValue[i] : i \in 1..Len(SourceValue)}
       /\ default_host = <<"d">>) =>
        /\ gh_result = HostsFrom(Canonical(SourceValue), default_host)
        /\ \A i \in 1..Len(gh_result) : Trimmed(gh_result[i])

----------------------------------------------------------------------------
\* _merge_odm_options (run.py).  A dict is a function from its keys to its
\* values; the heap holds the dict objects, so that a new object and an
\* input modified in place can be told apart.

MaxOptVal == 2    \* option values explored: 1..MaxOptVal

OptKeys == {"dsm", "feature-quality"}
OptVals == 1..MaxOptVal
Mappings == UNION { [D -> OptVals] : D \in SUBSET OptKeys }
EmptyDict == [k \in {} |-> 0]

\* x or {}, on a dict (line 64): an empty dict is falsy
OrEmpty(d) == IF DOMAIN d = {} THEN EmptyDict ELSE d

\* d.update(e): the mapping d holds afterwards
Update_KeepsExisting(d, e) ==
    [k \in DOMAIN d \cup DOMAIN e |-> IF k \in DOMAIN d THEN d[k] ELSE e[k]]
Update_LargestWins(d, e) ==
    [k \in DOMAIN d \cup DOMAIN e |->
        IF k \in DOMAIN d /\ k \in DOMAIN e
        THEN (IF d[k] >= e[k] THEN d[k] ELSE e[k])
        ELSE IF k \in DOMAIN e THEN e[k] ELSE d[k]]
Update(d, e) ==
    [k \in DOMAIN d \cup DOMAIN e |-> IF k \in DOMAIN e THEN e[k] ELSE d[k]]

\* the heap h with object o holding mapping d (a new object when o is new)
Store(h, o, d) == [x \in DOMAIN h \cup {o} |-> IF x = o THEN d ELSE h[x]]

\* _merge_odm_options(b, e) on heap h, for the objects named b and e;
\* merged is the name of the object dict(base) creates at line 63
MergeOdmOptions(h, b, e, merged) ==
    LET copied == Store(h, merged, h[b])                              \* line 63
        updated == Store(copied, merged,
                         Update(copied[merged], OrEmpty(copied[e])))  \* line 64
    IN  [heap |-> updated, ref |-> merged]                            \* line 65

MergeInit ==
    /\ base0 \in Mappings
    /\ extra0 \in Mappings
    /\ heap = [o \in {"base", "extra"} |-> IF o = "base" THEN base0 ELSE extra0]
    /\ mg_pc = "call"
    /\ merged_ref = ""
    /\ swapped = <<>>
    /\ Idle("merge")

\* merged = _merge_odm_options(base, extra)
Merge ==
    /\ mg_pc = "call"
    /\ LET r == MergeOdmOptions(heap, "base", "extra", "merged")
       IN  /\ heap' = r.heap
           /\ merged_ref' = r.ref
    /\ mg_pc' = "returned"
    /\ UNCHANGED <<base0, extra0, swapped>>
    /\ Frame("merge")

\* the call with the arguments exchanged: _merge_odm_options(extra, base)
MergeSwapped ==
    /\ mg_pc = "returned"
    /\ LET r == MergeOdmOptions(heap, "extra", "base", "merged2")
       IN  /\ heap' = r.heap
           /\ swapped' = r.heap[r.ref]
    /\ mg_pc' = "swapped"
    /\ UNCHANGED <<base0, extra0, merged_ref>>
    /\ Frame("merge")

MergeNext == Merge \/ MergeSwapped

SpecMerge == MergeInit /\ [][MergeNext]_vars

----------------------------------------------------------------------------
\* Reading the merge

Merged == heap[merged_ref]
SharedKeys == DOMAIN base0 \cap DOMAIN extra0

\* C18: the merged mapping has exactly the keys of base and override; it
\* maps every key of override to override's value and every other key of
\* base to base's value; base and override are left as they were and the
\* result is a new object.
C18_OverrideWinsInputsKept ==
    mg_pc \in {"returned", "swapped"} =>
        /\ DOMAIN Merged = DOMAIN base0 \cup DOMAIN extra0
        /\ \A k \in DOMAIN extra0 : Merged[k] = extra0[k]
        /\ \A k \in DOMAIN base0 \ DOMAIN extra0 : Merged[k] = base0[k]
        /\ heap["base"] = base0
        /\ heap["extra"] = extra0
        /\ merged_ref \notin {"base", "extra"}

\* a colliding key with different values, and a key of base alone
C18_Witness ==
    /\ mg_pc = "returned"
    /\ \E k \in SharedKeys : base0[k] /= extra0[k]
    /\ DOMAIN base0 \ DOMAIN extra0 /= {}
    /\ Merged /= base0
    /\ Merged /= extra0

\* C19 as stated: whenever a and b share at least one key, merge(a, b)
\* differs from merge(b, a).
C19_DiffersWhenKeysShared ==
    (mg_pc = "swapped" /\ SharedKeys /= {}) => Merged /= swapped

\* C19: whenever a and b share at least one key on which their values
\* differ, merge(a, b) differs from merge(b, a).
C19_DiffersWhenValuesCollide ==
    (mg_pc = "swapped" /\ \E k \in SharedKeys : base0[k] /= extra0[k]) =>
        Merged /= swapped

C19_Witness ==
    /\ mg_pc = "swapped"
    /\ \E k \in SharedKeys : base0[k] /= extra0[k]
    /\ \E k \in SharedKeys : base0[k] = extra0[k]
    /\ Merged /= swapped

----------------------------------------------------------------------------
\* submit_task (odm_task.py).  A file of images_dir is its stem (a number,
\* standing for the name it sorts by) and its extension.  An upload
\* percentage is a number of tenths of a percent, so that int(pct) has
\* something to truncate.

MaxStem == 2         \* file stems explored: 1..MaxStem
MaxCallbacks == 3    \* on_upload calls explored per submission

Files == [stem : 1..MaxStem, ext : {"jpg", "png"}]

\* the percentages the upload can report: 0, 4.9, 5.0, 9.9, 100.0
Pcts == {0, 49, 50, 99, 1000}

\* images_dir.glob("*.jpg")
Glob(files) == { f \in files : f.ext = "jpg" }

\* sorted(...), line 64
RECURSIVE Sorted(_)
Sorted(files) ==
    IF files = {} THEN <<>>
    ELSE LET first == CHOOSE f \in files : \A g \in files : f.stem <= g.stem
         IN  <<first>> \o Sorted(files \ {first})

\* not images, line 65
NoImages_Never(imgs) == FALSE
NoImages(imgs) == imgs = <<>>

\* int(pct), line 82
IntPct(pct) == pct \div 10

\* line 83
Milestone_AnyIncrease(p, last) == p > last
Milestone(p, last) == p >= last + 5

SubmitInit ==
    /\ dir_files \in SUBSET Files
    /\ sub_pc = "glob"
    /\ images = <<>>
    /\ last_p = -1
    /\ logged = <<>>
    /\ node_tasks = <<>>
    /\ sub_error = ""
    /\ callbacks = <<>>
    /\ Idle("submit")

\* lines 64-70: list the images, refuse an empty list
SubmitGlob ==
    /\ sub_pc = "glob"
    /\ LET imgs == Sorted(Glob(dir_files))
       IN  /\ images' = imgs
           /\ IF NoImages(imgs)
              THEN /\ sub_pc' = "raised"
                   /\ sub_error' = "ValueError"
              ELSE /\ sub_pc' = "create"
                   /\ UNCHANGED sub_error
    /\ UNCHANGED <<dir_files, last_p, logged, node_tasks, callbacks>>
    /\ Frame("submit")

\* line 87: node.create_task reaches the node, which creates the task
SubmitCreate ==
    /\ sub_pc = "create"
    /\ node_tasks' = Append(node_tasks, images)
    /\ sub_pc' = "uploading"
    /\ UNCHANGED <<dir_files, images, last_p, logged, sub_error, callbacks>>
    /\ Frame("submit")

\* line 87: node.create_task cannot reach the node; the exception leaves
\* submit_task
SubmitCreateFails ==
    /\ sub_pc = "create"
    /\ sub_pc' = "raised"
    /\ sub_error' = "NodeConnectionError"
    /\ UNCHANGED <<dir_files, images, last_p, logged, node_tasks, callbacks>>
    /\ Frame("submit")

\* lines 72-85: one call of on_upload(pct) made by the upload
OnUpload(pct) ==
    /\ sub_pc = "uploading"
    /\ Len(callbacks) < MaxCallbacks
    /\ callbacks' = Append(callbacks, pct)
    /\ LET p == IntPct(pct)
       IN  IF Milestone(p, last_p)
           THEN /\ last_p' = p
                /\ logged' = Append(logged, p)
           ELSE UNCHANGED <<last_p, logged>>
    /\ UNCHANGED <<dir_files, sub_pc, images, node_tasks, sub_error>>
    /\ Frame("submit")

\* lines 94-96: create_task returned, the handle is returned
SubmitReturn ==
    /\ sub_pc = "uploading"
    /\ sub_pc' = "returned"
    /\ UNCHANGED <<dir_files, images, last_p, logged, node_tasks, sub_error, callbacks>>
    /\ Frame("submit")

SubmitNext ==
    \/ SubmitGlob
    \/ SubmitCreate
    \/ SubmitCreateFails
    \/ \E pct \in Pcts : OnUpload(pct)
    \/ SubmitReturn

SpecSubmit == SubmitInit /\ [][SubmitNext]_vars

----------------------------------------------------------------------------
\* Reading the submission

\* the input image set is empty: the directory holds no .jpg file
EmptyImageSet == \A f \in dir_files : f.ext /= "jpg"

\* C20: with an empty input image set submit_task fails with ValueError
\* before it contacts the node: no remote task is created and no upload
\* callback fires.
C20_EmptyImageSetIsRefused ==
    (EmptyImageSet /\ sub_pc /= "glob") =>
        /\ sub_pc = "raised"
        /\ sub_error = "ValueError"
        /\ node_tasks = <<>>
        /\ callbacks = <<>>

\* refused in a directory that holds files, none of them a .jpg
C20_Witness ==
    /\ EmptyImageSet
    /\ dir_files /= {}
    /\ sub_pc = "raised"
    /\ sub_error = "ValueError"

\* the upload reported percentages that never went down
NonDecreasing(seq) == \A i \in 1..(Len(seq) - 1) : seq[i] <= seq[i + 1]

\* C21: when the upload callback is called with non-decreasing
\* percentages, any two percentages written to the log differ by at least
\* 5 and the later one is the larger; every one of them is the integer
\* part of a percentage the upload reported.
C21_MilestonesLoggedOnce ==
    NonDecreasing(callbacks) =>
        /\ \A i, j \in 1..Len(logged) : i < j => logged[j] >= logged[i] + 5
        /\ \A i \in 1..Len(logged) :
              \E c \in 1..Len(callbacks) : logged[i] = callbacks[c] \div 10

\* two milestones were logged and a call in between was dropped
C21_Witness ==
    /\ NonDecreasing(callbacks)
    /\ Len(callbacks) = 3
    /\ Len(logged) = 2
    /\ callbacks[2] > callbacks[1]
    /\ callbacks[3] > callbacks[2]

----------------------------------------------------------------------------
\* run_pipeline (run.py)

\* the stages, in the order of their calls in the body (lines 213-234)
StageOrder == <<"extract", "hosts", "select", "connect", "merge", "submit",
                "monitor", "retrieve", "copy">>

\* the exceptions a stage can raise: run_cmd raises RuntimeError (ffmpeg),
\* pick_best_odm_host ValueError, connect RuntimeError, submit_task
\* ValueError (no images) or the node's connection error,
\* wait_for_completion RuntimeError, task.download_assets the node's
\* errors, write_bytes OSError; get_odm_hosts and _merge_odm_options have
\* no raising path.
StageFaults(stage) ==
    CASE stage = "extract"  -> {"RuntimeError"}
      [] stage = "select"   -> {"ValueError"}
      [] stage = "connect"  -> {"RuntimeError"}
      [] stage = "submit"   -> {"ValueError", "NodeConnectionError"}
      [] stage = "monitor"  -> {"RuntimeError"}
      [] stage = "retrieve" -> {"NodeResponseError"}
      [] stage = "copy"     -> {"OSError"}
      [] OTHER              -> {}

\* the host lists get_odm_hosts can return, the handles create_task can
\* give, the ways a monitored task can end, the curated file names
HostLists == { <<"n1">>, <<"n1", "n2">>, <<"n2", "n1">> }
Handles == {"h1", "h2"}
MonOutcomes == {"COMPLETED", "FAILED", "CANCELED", "not_found", "lost"}
CuratedNames == {"odm_orthophoto.tif", "report.pdf"}

\* the line reached when the call of a stage returns
AfterReturn_ConnectFirst(stage) ==
    CASE stage = "extract"  -> "hosts"
      [] stage = "hosts"    -> "connect"
      [] stage = "connect"  -> "select"
      [] stage = "select"   -> "merge"
      [] stage = "merge"    -> "submit"
      [] stage = "submit"   -> "monitor"
      [] stage = "monitor"  -> "retrieve"
      [] stage = "retrieve" -> "copy"
      [] stage = "copy"     -> "finish"
AfterReturn(stage) ==
    CASE stage = "extract"  -> "hosts"       \* line 213 -> 216
      [] stage = "hosts"    -> "select"      \* 216 -> 217
      [] stage = "select"   -> "connect"     \* 217 -> 218
      [] stage = "connect"  -> "merge"       \* 218 -> 221
      [] stage = "merge"    -> "submit"      \* 221 -> 224
      [] stage = "submit"   -> "monitor"     \* 224 -> 227
      [] stage = "monitor"  -> "retrieve"    \* 227 -> 230
      [] stage = "retrieve" -> "copy"        \* 230 -> 233
      [] stage = "copy"     -> "finish"      \* 234 -> 236

\* the line reached when the call of a stage raises: run_pipeline has no
\* try statement, the exception leaves it
AfterRaise_Swallowed(stage) == AfterReturn(stage)
AfterRaise(stage) == "raised"

\* the exception run_pipeline raises when a stage raised f
Propagate(f) == f

\* not video_path.exists(), line 190
VideoMissing_Unchecked(exists) == FALSE
VideoMissing(exists) == ~exists

\* if copy_processed, line 233
Curate_Always(flag) == TRUE
Curate(flag) == flag

\* the address connect is called with, line 218
ConnectTarget_FirstHost(host, hostlist) == hostlist[1]
ConnectTarget(host, hostlist) == host

\* wait_for_completion returns normally only for a COMPLETED task
\* (odm_task.py lines 236-247); every other end raises RuntimeError
MonitorReturns_Always(outcome) == TRUE
MonitorReturns(outcome) == outcome = "COMPLETED"

\* what every step of a stage call records
Calls(stage) == started' = Append(started, stage)

Returns(stage) ==
    /\ rp_pc' = AfterReturn(stage)
    /\ UNCHANGED <<rp_error, stage_fault>>

Raises(stage, exc) ==
    /\ stage_fault' = [stage |-> stage, exc |-> exc]
    /\ rp_error' = Propagate([stage |-> stage, exc |-> exc])
    /\ rp_pc' = AfterRaise(stage)

RunInit ==
    /\ video_exists \in BOOLEAN
    /\ copy_processed \in BOOLEAN
    /\ rp_pc = "start"
    /\ rp_hosts = <<>>
    /\ rp_host = ""
    /\ rp_node = ""
    /\ rp_task = ""
    /\ rp_error = NoFault
    /\ completed_logged = FALSE
    /\ dirs = {}
    /\ processed_files = {}
    /\ contacted = {}
    /\ created = <<>>
    /\ monitored = <<>>
    /\ retrieved = <<>>
    /\ started = <<>>
    /\ stage_fault = NoFault
    /\ mon_outcome = ""
    /\ retrieval_ok = FALSE
    /\ Idle("run")

\* lines 190-203: the existence check, the run id, the directories
RunStart ==
    /\ rp_pc = "start"
    /\ IF VideoMissing(video_exists)
       THEN /\ stage_fault' = [stage |-> "start", exc |-> "FileNotFoundError"]
            /\ rp_error' = Propagate([stage |-> "start", exc |-> "FileNotFoundError"])
            /\ rp_pc' = "raised"
            /\ UNCHANGED dirs
       ELSE /\ dirs' = dirs \cup {"run_dir", "logs_dir", "frames_dir", "odm_out_dir"}
            /\ rp_pc' = "extract"
            /\ UNCHANGED <<rp_error, stage_fault>>
    /\ UNCHANGED <<video_exists, copy_processed, rp_hosts, rp_host, rp_node, rp_task,
                   completed_logged, processed_files, contacted, created, monitored,
                   retrieved, started, mon_outcome, retrieval_ok>>
    /\ Frame("run")

\* lines 206-213: extract_frames
ExtractFrames ==
    /\ rp_pc = "extract"
    /\ Calls("extract")
    /\ \/ Returns("extract")
       \/ \E exc \in StageFaults("extract") : Raises("extract", exc)
    /\ dirs' = dirs \cup {"frames_dir"}
    /\ UNCHANGED <<video_exists, copy_processed, rp_hosts, rp_host, rp_node, rp_task,
                   completed_logged, processed_files, contacted, created, monitored,
                   retrieved, mon_outcome, retrieval_ok>>
    /\ Frame("run")

\* line 216: get_odm_hosts
ResolveHosts ==
    /\ rp_pc = "hosts"
    /\ Calls("hosts")
    /\ Returns("hosts")
    /\ rp_hosts' \in HostLists
    /\ UNCHANGED <<video_exists, copy_processed, rp_host, rp_node, rp_task,
                   completed_logged, dirs, processed_files, contacted, created,
                   monitored, retrieved, mon_outcome, retrieval_ok>>
    /\ Frame("run")

\* line 217: pick_best_odm_host probes the addresses and returns one of
\* them, or raises before it has probed them all
SelectNode ==
    /\ rp_pc = "select"
    /\ Calls("select")
    /\ \/ /\ Returns("select")
          /\ rp_host' \in Range(rp_hosts)
          /\ contacted' = contacted \cup Range(rp_hosts)
       \/ /\ \E exc \in StageFaults("select") : Raises("select", exc)
          /\ \E i \in 0..(Len(rp_hosts) - 1) :
                contacted' = contacted \cup {rp_hosts[j] : j \in 1..i}
          /\ UNCHANGED rp_host
    /\ UNCHANGED <<video_exists, copy_processed, rp_hosts, rp_node, rp_task,
                   completed_logged, dirs, processed_files, created, monitored,
                   retrieved, mon_outcome, retrieval_ok>>
    /\ Frame("run")

\* line 218: connect(host) makes the Node and queries node.info()
Connect ==
    /\ rp_pc = "connect"
    /\ Calls("connect")
    /\ LET target == ConnectTarget(rp_host, rp_hosts)
       IN  /\ contacted' = contacted \cup {target}
           /\ \/ /\ Returns("connect")
                 /\ rp_node' = target
              \/ /\ \E exc \in StageFaults("connect") : Raises("connect", exc)
                 /\ UNCHANGED rp_node
    /\ UNCHANGED <<video_exists, copy_processed, rp_hosts, rp_host, rp_task,
                   completed_logged, dirs, processed_files, created, monitored,
                   retrieved, mon_outcome, retrieval_ok>>
    /\ Frame("run")

\* lines 221-222: _merge_odm_options
MergeOptions ==
    /\ rp_pc = "merge"
    /\ Calls("merge")
    /\ Returns("merge")
    /\ UNCHANGED <<video_exists, copy_processed, rp_hosts, rp_host, rp_node, rp_task,
                   completed_logged, dirs, processed_files, contacted, created,
                   monitored, retrieved, mon_outcome, retrieval_ok>>
    /\ Frame("run")

\* line 224: submit_task(node, ...) creates the task on node and returns
\* its handle; it raises ValueError before it reaches the node, and the
\* node's error before or after the node created the task
Submit ==
    /\ rp_pc = "submit"
    /\ Calls("submit")
    /\ \/ /\ Returns("submit")
          /\ \E h \in Handles :
                /\ rp_task' = h
                /\ created' = Append(created, [node |-> rp_node, handle |-> h])
       \/ /\ Raises("submit", "ValueError")
          /\ UNCHANGED <<rp_task, created>>
       \/ /\ Raises("submit", "NodeConnectionError")
          /\ UNCHANGED rp_task
          /\ \/ UNCHANGED created
             \/ \E h \in Handles :
                   created' = Append(created, [node |-> rp_node, handle |-> h])
    /\ UNCHANGED <<video_exists, copy_processed, rp_hosts, rp_host, rp_node,
                   completed_logged, dirs, processed_files, contacted, monitored,
                   retrieved, mon_outcome, retrieval_ok>>
    /\ Frame("run")

\* line 227: wait_for_completion(task, ...)
Monitor ==
    /\ rp_pc = "monitor"
    /\ Calls("monitor")
    /\ monitored' = Append(monitored, rp_task)
    /\ \E o \in MonOutcomes :
          /\ mon_outcome' = o
          /\ IF MonitorReturns(o)
             THEN Returns("monitor")
             ELSE \E exc \in StageFaults("monitor") : Raises("monitor", exc)
    /\ UNCHANGED <<video_exists, copy_processed, rp_hosts, rp_host, rp_node, rp_task,
                   completed_logged, dirs, processed_files, contacted, created,
                   retrieved, retrieval_ok>>
    /\ Frame("run")

\* line 230: download_assets(task, odm_out_dir)
Retrieve ==
    /\ rp_pc = "retrieve"
    /\ Calls("retrieve")
    /\ retrieved' = Append(retrieved, rp_task)
    /\ dirs' = dirs \cup {"odm_out_dir"}
    /\ \/ /\ Returns("retrieve")
          /\ retrieval_ok' = TRUE
       \/ /\ \E exc \in StageFaults("retrieve") : Raises("retrieve", exc)
          /\ UNCHANGED retrieval_ok
    /\ UNCHANGED <<video_exists, copy_processed, rp_hosts, rp_host, rp_node, rp_task,
                   completed_logged, processed_files, contacted, created, monitored,
                   mon_outcome>>
    /\ Frame("run")

\* lines 233-234, copy_processed true: _copy_summary_outputs creates
\* processed_dir and writes the candidates that exist; a failing write
\* leaves the files written before it
CuratedCopy ==
    /\ rp_pc = "copy"
    /\ Curate(copy_processed)
    /\ Calls("copy")
    /\ dirs' = dirs \cup {"processed_dir"}
    /\ processed_files' \in SUBSET CuratedNames
    /\ \/ Returns("copy")
       \/ \E exc \in StageFaults("copy") : Raises("copy", exc)
    /\ UNCHANGED <<video_exists, copy_processed, rp_hosts, rp_host, rp_node, rp_task,
                   completed_logged, contacted, created, monitored, retrieved,
                   mon_outcome, retrieval_ok>>
    /\ Frame("run")

\* line 233, copy_processed false
SkipCopy ==
    /\ rp_pc = "copy"
    /\ ~Curate(copy_processed)
    /\ rp_pc' = "finish"
    /\ UNCHANGED <<video_exists, copy_processed, rp_hosts, rp_host, rp_node, rp_task,
                   rp_error, completed_logged, dirs, processed_files, contacted,
                   created, monitored, retrieved, started, stage_fault, mon_outcome,
                   retrieval_ok>>
    /\ Frame("run")

\* lines 236-237
Finish ==
    /\ rp_pc = "finish"
    /\ completed_logged' = TRUE
    /\ rp_pc' = "returned"
    /\ UNCHANGED <<video_exists, copy_processed, rp_hosts, rp_host, rp_node, rp_task,
                   rp_error, dirs, processed_files, contacted, created, monitored,
                   retrieved, started, stage_fault, mon_outcome, retrieval_ok>>
    /\ Frame("run")

RunNext ==
    \/ RunStart
    \/ ExtractFrames
    \/ ResolveHosts
    \/ SelectNode
    \/ Connect
    \/ MergeOptions
    \/ Submit
    \/ Monitor
    \/ Retrieve
    \/ CuratedCopy
    \/ SkipCopy
    \/ Finish

SpecRun == RunInit /\ [][RunNext]_vars

----------------------------------------------------------------------------
\* Reading a run

\* C22: the stages of a run are called in the order extract frames,
\* resolve host list, select node, connect, merge options, submit,
\* monitor, retrieve, curated copy: the calls made so far are always the
\* first calls of that order, so no stage is called twice and none after
\* a later one.
C22_StagesInFixedOrder ==
    /\ Len(started) <= Len(StageOrder)
    /\ \A i \in 1..Len(started) : started[i] = StageOrder[i]

\* a run that went through all nine stages
C22_Witness ==
    /\ rp_pc = "returned"
    /\ Len(started) = 9
    /\ started[9] = "copy"

\* C23: when a stage raises, the run stops there: the exception leaves
\* run_pipeline as the stage raised it, the stage that raised is the last
\* one called, and the run is not reported as completed.
C23_FailFast ==
    stage_fault /= NoFault =>
        /\ rp_pc = "raised"
        /\ rp_error = stage_fault
        /\ ~completed_logged
        /\ IF stage_fault.stage = "start"
           THEN started = <<>>
           ELSE started /= <<>> /\ Last(started) = stage_fault.stage

\* the submission raised: nothing was monitored or retrieved
C23_Witness ==
    /\ rp_pc = "raised"
    /\ stage_fault.stage = "submit"
    /\ Len(started) = 6
    /\ monitored = <<>>

\* C24: processed_dir is created or written only in a run whose
\* retrieval returned normally and whose caller asked for the curated
\* copy.
C24_CuratedOnlyAfterRetrieval ==
    ("processed_dir" \in dirs \/ processed_files /= {}) =>
        (retrieval_ok /\ copy_processed)

C24_Witness ==
    /\ rp_pc = "returned"
    /\ processed_files /= {}
    /\ "processed_dir" \in dirs

\* C26: a run creates at most one remote task, on the node that node
\* selection returned; the handle of that submission is the only handle
\* given to monitoring and to retrieval, each called at most once.
C26_OneTaskOneHandle ==
    /\ Len(created) <= 1
    /\ \A i \in 1..Len(created) : created[i].node = rp_host
    /\ Len(monitored) <= 1
    /\ Len(retrieved) <= 1
    /\ \A i \in 1..Len(monitored) : created /= <<>> /\ monitored[i] = created[1].handle
    /\ \A i \in 1..Len(retrieved) : created /= <<>> /\ retrieved[i] = created[1].handle

\* selection returned the second address of the list, and the task
\* created there was monitored and retrieved
C26_Witness ==
    /\ Len(rp_hosts) = 2
    /\ rp_host = rp_hosts[2]
    /\ Len(created) = 1
    /\ Len(retrieved) = 1

\* C27: with a video path that does not exist the run raises
\* FileNotFoundError and has done nothing else: no directory created, no
\* stage called, no node contacted, no task created.
C27_MissingVideoNoSideEffect ==
    (~video_exists /\ rp_pc /= "start") =>
        /\ rp_pc = "raised"
        /\ rp_error = [stage |-> "start", exc |-> "FileNotFoundError"]
        /\ dirs = {}
        /\ started = <<>>
        /\ contacted = {}
        /\ created = <<>>

C27_Witness ==
    /\ ~video_exists
    /\ rp_pc = "raised"
    /\ rp_error.exc = "FileNotFoundError"

\* C30: download_assets is called only after wait_for_completion was
\* called and returned normally, which it does only for a task seen
\* COMPLETED; never after a FAILED, CANCELED, not-found or
\* lost-connection end.
C30_RetrievalOnlyAfterCompleted ==
    retrieved /= <<>> =>
        /\ mon_outcome = "COMPLETED"
        /\ monitored /= <<>>
        /\ \E i, j \in 1..Len(started) :
              i < j /\ started[i] = "monitor" /\ started[j] = "retrieve"

C30_Witness ==
    /\ retrieved /= <<>>
    /\ Last(started) = "retrieve"
    /\ mon_outcome = "COMPLETED"

----------------------------------------------------------------------------
\* download_assets (odm_task.py)

MaxRetrievals == 4    \* download_assets calls explored on one out_dir

\* the disk at out_dir: the parent directory is absent or a directory;
\* out_dir is absent, a directory or a regular file
Disks ==
    { d \in [parent : {"absent", "dir"}, out : {"absent", "dir", "file"}] :
        d.out /= "absent" => d.parent = "dir" }

\* how task.download_assets(...) can end
PyodmResults == {"ok", "NodeResponseError", "NodeConnectionError"}

\* the arguments of out_dir.mkdir, line 269
MkdirArgs_Defaults == [parents |-> FALSE, exist_ok |-> FALSE]
MkdirArgs == [parents |-> TRUE, exist_ok |-> TRUE]

\* Path.mkdir(parents, exist_ok) on disk d: the disk afterwards and the
\* exception raised ("" when none)
Mkdir(d, args) ==
    IF d.out = "dir"
    THEN [fs |-> d, exc |-> IF args.exist_ok THEN "" ELSE "FileExistsError"]
    ELSE IF d.out = "file"
    THEN [fs |-> d, exc |-> "FileExistsError"]
    ELSE IF d.parent = "absent" /\ ~args.parents
    THEN [fs |-> d, exc |-> "FileNotFoundError"]
    ELSE [fs |-> [parent |-> "dir", out |-> "dir"], exc |-> ""]

RetrieveInit ==
    /\ rt_fs \in Disks
    /\ rt_log = <<>>
    /\ Idle("retrieve")

\* download_assets(task, out_dir), lines 269-272
DownloadAssets ==
    /\ Len(rt_log) < MaxRetrievals
    /\ LET made == Mkdir(rt_fs, MkdirArgs)                       \* line 269
       IN  /\ rt_fs' = made.fs
           /\ IF made.exc /= ""
              THEN rt_log' = Append(rt_log, [before |-> rt_fs.out, after |-> made.fs.out,
                                             result |-> made.exc])
              ELSE \E res \in PyodmResults :                     \* line 271
                     rt_log' = Append(rt_log, [before |-> rt_fs.out, after |-> made.fs.out,
                                               result |-> res])
    /\ Frame("retrieve")

RetrieveNext == DownloadAssets

SpecRetrieve == RetrieveInit /\ [][RetrieveNext]_vars

----------------------------------------------------------------------------
\* Reading the retrievals

DirectoryErrors == {"FileExistsError", "FileNotFoundError"}

\* C25: a download_assets call that finds out_dir absent creates it, and
\* one that finds it already a directory does not fail for that: no call
\* on an absent or existing directory ends with a directory-creation
\* error, a second call into the same directory included, and the
\* directory exists after each.
C25_DirectoryCreatedIdempotently ==
    \A i \in 1..Len(rt_log) :
        rt_log[i].before \in {"absent", "dir"} =>
            /\ rt_log[i].result \notin DirectoryErrors
            /\ rt_log[i].after = "dir"

\* the first call created the directory (and its parent), the second
\* found it there and downloaded
C25_Witness ==
    /\ Len(rt_log) >= 2
    /\ rt_log[1].before = "absent"
    /\ rt_log[1].result = "ok"
    /\ rt_log[2].before = "dir"
    /\ rt_log[2].result = "ok"

----------------------------------------------------------------------------
\* _copy_summary_outputs (run.py)

\* candidates, lines 102-112: each is its directory under odm_out_dir and
\* its file name
Candidates ==
    << [dir |-> "odm_orthophoto",     name |-> "odm_orthophoto.tif"],
       [dir |-> "odm_orthophoto",     name |-> "odm_orthophoto.png"],
       [dir |-> "odm_dem",            name |-> "dsm.tif"],
       [dir |-> "odm_georeferencing", name |-> "odm_georeferenced_model.laz"],
       [dir |-> "odm_texturing",      name |-> "odm_textured_model.obj"],
       [dir |-> "odm_texturing",      name |-> "odm_textured_model_geo.obj"],
       [dir |-> "odm_mesh",           name |-> "odm_mesh.ply"],
       [dir |-> "odm_report",         name |-> "report.pdf"] >>

\* p.exists(), line 115
Exists_Always(bundle, p) == TRUE
Exists(bundle, p) == bundle[p] = "file"

\* dst.write_bytes(p.read_bytes()), lines 116-117: processed_dir holds a
\* file named p.name with the bytes of p, in place of any file of that name
WriteCopy(files, p) ==
    { f \in files : f.name /= p.name } \cup {[name |-> p.name, bytes |-> p]}

CurateInit ==
    /\ cs_bundle \in [Range(Candidates) -> {"file", "absent"}]
    /\ cs_pc = "start"
    /\ cs_i = 1
    /\ cs_dir \in { d \in Disks : d.parent = "dir" /\ d.out /= "file" }
    /\ cs_processed = {}
    /\ cs_error = <<>>
    /\ Idle("curate")

\* line 100: processed_dir.mkdir(parents=True, exist_ok=True)
CopyStart ==
    /\ cs_pc = "start"
    /\ cs_dir' = Mkdir(cs_dir, [parents |-> TRUE, exist_ok |-> TRUE]).fs
    /\ cs_pc' = "loop"
    /\ UNCHANGED <<cs_bundle, cs_i, cs_processed, cs_error>>
    /\ Frame("curate")

CopyInLoop == cs_pc = "loop" /\ cs_i <= Len(Candidates)

\* lines 114-115: the candidate does not exist, the loop goes on
CopySkip ==
    /\ CopyInLoop
    /\ ~Exists(cs_bundle, Candidates[cs_i])
    /\ cs_i' = cs_i + 1
    /\ UNCHANGED <<cs_bundle, cs_pc, cs_dir, cs_processed, cs_error>>
    /\ Frame("curate")

\* lines 115-118: the candidate exists and is copied; reading a path that
\* is not there raises FileNotFoundError
CopyWrite ==
    /\ CopyInLoop
    /\ Exists(cs_bundle, Candidates[cs_i])
    /\ IF cs_bundle[Candidates[cs_i]] = "file"
       THEN /\ cs_processed' = WriteCopy(cs_processed, Candidates[cs_i])
            /\ cs_i' = cs_i + 1
            /\ UNCHANGED <<cs_pc, cs_error>>
       ELSE /\ cs_pc' = "raised"
            /\ cs_error' = <<"FileNotFoundError", Candidates[cs_i]>>
            /\ UNCHANGED <<cs_processed, cs_i>>
    /\ UNCHANGED <<cs_bundle, cs_dir>>
    /\ Frame("curate")

\* lines 116-117: the copy of an existing candidate fails (disk full,
\* permissions); the OSError leaves the function
CopyWriteFails ==
    /\ CopyInLoop
    /\ Exists(cs_bundle, Candidates[cs_i])
    /\ cs_bundle[Candidates[cs_i]] = "file"
    /\ cs_pc' = "raised"
    /\ cs_error' = <<"OSError", Candidates[cs_i]>>
    /\ UNCHANGED <<cs_bundle, cs_i, cs_dir, cs_processed>>
    /\ Frame("curate")

\* the loop is exhausted, the function returns
CopyReturn ==
    /\ cs_pc = "loop"
    /\ cs_i > Len(Candidates)
    /\ cs_pc' = "returned"
    /\ UNCHANGED <<cs_bundle, cs_i, cs_dir, cs_processed, cs_error>>
    /\ Frame("curate")

CurateNext ==
    \/ CopyStart
    \/ CopySkip
    \/ CopyWrite
    \/ CopyWriteFails
    \/ CopyReturn

SpecCurate == CurateInit /\ [][CurateNext]_vars

----------------------------------------------------------------------------
\* Reading the curated copy

\* the candidates that exist in the downloaded bundle
Existing == { p \in Range(Candidates) : cs_bundle[p] = "file" }

\* C28: whatever subset of the candidates exists in the bundle, the copy
\* never fails at a candidate that is absent, and when it returns the
\* summary directory holds exactly one file per existing candidate, under
\* the candidate's name and with its bytes, and nothing for the missing
\* ones; with no candidate at all it returns with nothing copied.
C28_CopiesExactlyTheExisting ==
    /\ cs_pc = "raised" => cs_bundle[cs_error[2]] = "file"
    /\ cs_pc = "returned" =>
          /\ cs_processed = { [name |-> p.name, bytes |-> p] : p \in Existing }
          /\ Cardinality(cs_processed) = Cardinality(Existing)
    /\ (cs_pc = "loop" /\ Existing = {}) => cs_processed = {}

\* returned with some candidates copied and some skipped
C28_Witness ==
    /\ cs_pc = "returned"
    /\ Cardinality(Existing) = 3
    /\ Cardinality(cs_processed) = 3
    /\ cs_bundle[Candidates[1]] = "absent"
    /\ cs_bundle[Candidates[8]] = "file"

----------------------------------------------------------------------------
\* extract_frames and _cap_frames (frames.py).  A frame file
\* frame_%06d.jpg is its number; below a million frames the order of the
\* file names is the order of the numbers.

MaxExtract == 3    \* most frames one ffmpeg run writes

\* the values of max_frames explored
MaxFramesVals == -1..MaxExtract

\* sorted(out_dir.glob("frame_*.jpg")), line 132
RECURSIVE SortedFrames(_)
SortedFrames(frames) ==
    IF frames = {} THEN <<>>
    ELSE LET first == CHOOSE f \in frames : \A g \in frames : f <= g
         IN  <<first>> \o SortedFrames(frames \ {first})

\* params.max_frames and params.max_frames > 0, line 104
CapWanted(max_frames) == max_frames /= 0 /\ max_frames > 0

\* _cap_frames(out_dir, max_frames), lines 132-138: the frame files left
_cap_frames(frames, max_frames) ==
    LET sorted == SortedFrames(frames)
    IN  IF Len(sorted) <= max_frames
        THEN frames
        ELSE frames \ {sorted[i] : i \in (max_frames + 1)..Len(sorted)}

\* out_dir is new, or holds the frames an earlier call left there (the
\* run id, and with it the frames directory, can be given by the caller)
FramesInit ==
    /\ \E m \in 0..MaxExtract : fr_dir = 1..m
    /\ fr_max \in MaxFramesVals
    /\ fr_pc = "ffmpeg"
    /\ fr_before = fr_dir
    /\ fr_extracted = {}
    /\ Idle("frames")

\* lines 74-101: ffmpeg -y writes frame_000001.jpg .. frame_<k>.jpg over
\* what is there
FramesExtract ==
    /\ fr_pc = "ffmpeg"
    /\ \E k \in 0..MaxExtract :
          /\ fr_extracted' = 1..k
          /\ fr_dir' = fr_dir \cup (1..k)
    /\ fr_pc' = "cap"
    /\ UNCHANGED <<fr_max, fr_before>>
    /\ Frame("frames")

\* line 101: ffmpeg ends with a non-zero code after writing some frames,
\* run_cmd raises RuntimeError
FramesExtractFails ==
    /\ fr_pc = "ffmpeg"
    /\ \E k \in 0..MaxExtract :
          /\ fr_extracted' = 1..k
          /\ fr_dir' = fr_dir \cup (1..k)
    /\ fr_pc' = "raised"
    /\ UNCHANGED <<fr_max, fr_before>>
    /\ Frame("frames")

\* lines 104-107, the cap is wanted
FramesCap ==
    /\ fr_pc = "cap"
    /\ CapWanted(fr_max)
    /\ fr_dir' = _cap_frames(fr_dir, fr_max)
    /\ fr_pc' = "returned"
    /\ UNCHANGED <<fr_max, fr_before, fr_extracted>>
    /\ Frame("frames")

\* lines 104-107, no cap
FramesReturn ==
    /\ fr_pc = "cap"
    /\ ~CapWanted(fr_max)
    /\ fr_pc' = "returned"
    /\ UNCHANGED <<fr_dir, fr_max, fr_before, fr_extracted>>
    /\ Frame("frames")

FramesNext ==
    \/ FramesExtract
    \/ FramesExtractFails
    \/ FramesCap
    \/ FramesReturn

SpecFrames == FramesInit /\ [][FramesNext]_vars

----------------------------------------------------------------------------
\* Reading the extraction

\* the first n of a set of frames, in file name order
FirstN(frames, n) ==
    LET sorted == SortedFrames(frames)
    IN  {sorted[i] : i \in 1..(IF n < Len(sorted) THEN n ELSE Len(sorted))}

\* C29: with max_frames = 0 no extracted frame is deleted; with
\* max_frames = N > 0 the frames directory holds, after extract_frames,
\* at most N frame files, and they are the first N in file name order of
\* the frames extracted.
C29_FrameCap ==
    fr_pc = "returned" =>
        /\ fr_max = 0 => fr_extracted \subseteq fr_dir
        /\ fr_max > 0 =>
              /\ Cardinality(fr_dir) <= fr_max
              /\ fr_dir = FirstN(fr_extracted, fr_max)

\* In a frames directory that held no frame before the call the cap is
\* as C29 says (C29 fails only on a directory that already held frames).
FrameCapInNewDirectory ==
    (fr_pc = "returned" /\ fr_before = {}) =>
        /\ fr_max = 0 => fr_dir = fr_extracted
        /\ fr_max > 0 =>
              /\ Cardinality(fr_dir) <= fr_max
              /\ fr_dir = FirstN(fr_extracted, fr_max)

\* Whatever the directory held, at most N frame files are left
FrameCountCapped ==
    (fr_pc = "returned" /\ fr_max > 0) => Cardinality(fr_dir) <= fr_max

----------------------------------------------------------------------------
\* Reading the monitor: the counter and the decisive events

\* C31: for a ceiling N >= 1 the consecutive-failure counter is always
\* between 0 and N, and it is strictly below N whenever the monitor is
\* sleeping or about to query.
C31_CounterWithinCeiling ==
    max_connection_errors >= 1 =>
        /\ consecutive_conn_errors >= 0
        /\ consecutive_conn_errors <= max_connection_errors
        /\ pc \in {"sleep", "query"} =>
              consecutive_conn_errors < max_connection_errors

\* sleeping after a fault, one fault short of the ceiling
C31_Witness ==
    /\ pc = "sleep"
    /\ max_connection_errors >= 2
    /\ consecutive_conn_errors = max_connection_errors - 1
    /\ Last(hist) = Fault

\* the last query was decisive: it succeeded with a terminal status, or
\* it met a not-found fault, or its connectivity fault completed a streak
\* as long as the ceiling
TerminalReported ==
    LastOk /\ info.status.kind \in {"enum", "str"}
           /\ info.status.text \in {"COMPLETED", "FAILED", "CANCELED"}
Decisive ==
    \/ TerminalReported
    \/ hist /= <<>> /\ Last(hist) = NotFound
    \/ TrailingFaults(hist) >= max_connection_errors

\* C32: the monitor stops at the first decisive event: in the state a
\* decisive query leaves, the monitor has terminated without sleeping
\* after it, and no step (query or sleep) is ever taken from such a
\* state; so a terminal status reported on a successful query leads to
\* termination.
C32_StopsAtFirstDecisiveEvent ==
    /\ [](Decisive => (Done /\ Len(slept) = Len(hist) - 1))
    /\ [][~Decisive]_vars
    /\ (TerminalReported ~> Done)

\* terminated on a FAILED report that came after earlier queries
C32_Witness ==
    /\ Done
    /\ Reported("FAILED")
    /\ Len(hist) >= 3
    /\ Fault \in Range(hist)
    /\ Len(slept) = Len(hist) - 1

----------------------------------------------------------------------------
\* Reading the selection: ties

\* the positions whose successful probe gave the minimal tuple
MinimalPositions == {i \in OkProbes : MinimalAt(i)}
EarliestMinimal == CHOOSE i \in MinimalPositions : \A j \in MinimalPositions : i <= j

\* C33: when several successfully probed addresses share the minimal
\* tuple, the selection returns the one earliest in the list; and a
\* returned value is always an element of the input list as it was given,
\* not its normalised URL.
C33_TiesGoToEarliest ==
    /\ (SelDone /\ Cardinality(MinimalPositions) >= 2) =>
          (sel_pc = "returned" /\ sel_result = Some(hosts[EarliestMinimal]))
    /\ sel_pc = "returned" => \E i \in 1..Len(hosts) : sel_result = Some(hosts[i])

\* On address lists in which every address has a well-formed port, ties
\* go to the earliest address and the value returned is an element of the
\* list (C33 fails on the other lists only).
TiesOnWellFormedLists ==
    (WellFormedList /\ SelDone) =>
        /\ Cardinality(MinimalPositions) >= 2 =>
              (sel_pc = "returned" /\ sel_result = Some(hosts[EarliestMinimal]))
        /\ sel_pc = "returned" => \E i \in 1..Len(hosts) : sel_result = Some(hosts[i])

\* a tie between two different addresses was settled for the earlier one
TieSettled ==
    /\ sel_pc = "returned"
    /\ Cardinality(MinimalPositions) >= 2
    /\ \E i, j \in MinimalPositions : hosts[i] /= hosts[j]
    /\ sel_result = Some(hosts[EarliestMinimal])

====
